---- MODULE Spec2Model ----
(***************************************************************************)
(* Pooled particle system of the particle fountain:                        *)
(*   src/src/components/particle-system/ParticleSystem.ts                  *)
(*   src/src/components/particle-system/Particle.ts                        *)
(*                                                                         *)
(* Numbers.  deltaMS, age and lifetime are milliseconds.  emissionTimer is *)
(* kept in units of 1/TimerUnit particle, so that                          *)
(*   emissionTimer += (emissionRate / 5) * deltaMS / 1000                  *)
(* is the exact integer addition of emissionRate * deltaMS; IEEE rounding  *)
(* of the quotient is not modelled.  The one non-number a JavaScript       *)
(* caller can pass, NaN, is the value NaN below with the IEEE rules for    *)
(* +, - and the comparisons (every comparison with NaN is false).          *)
(* sprite.alpha is the fraction num/den.  Tint and scale, which no         *)
(* operation reads back, are left out.                                     *)
(*                                                                         *)
(* emitterConfig is an EmitterConfig as Particle.ts declares it (lifetime, *)
(* gravity, ...).  emit() has no caller but update().                      *)
(***************************************************************************)
EXTENDS Integers, Sequences, FiniteSets

\* ------------------------------------------------------------------ bounds
\* initPool(1000) in the constructor, scaled down
PoolSize == 2
\* cap on sprites ever created (pool growth is unbounded in the code)
MaxSprites == 5
\* cap on the number of update calls of one run
MaxTicks == 3
\* cap on the calls other than update (cleanup, release) of one run
MaxCalls == 2
\* largest target count of the fixed-tick runs
MaxTarget == 4
\* length of the fixed-tick runs, in emission windows
MaxWindows == 2
\* clicks on the particle count buttons
MaxChanges == 2
\* cap on the update calls of a WasmParticleSystemV2
MaxFrames == 1
\* cap on the shapes on the stage of a CanvasRenderer
MaxObjects == 3
\* cap on the clicks on the buttons of CanvasPerformanceTest
MaxClicks == 3

\* ------------------------------------------------------- program constants
\* emissionRate / 5 : the emission window in seconds
EmissionWindow == 5
\* (emissionsPerSecond * deltaMS) / 1000
MsPerSecond == 1000
TimerUnit == EmissionWindow * MsPerSecond

\* ------------------------------------------------------------ input sets
\* elapsed times the ticker delivers (ticker.deltaMS is finite and >= 0)
Deltas == {0, 1000, 2500}
\* emission rates (particles per emission window)
Rates == {0, 3, 5}
\* emitterConfig.lifetime, ms
Lifetimes == {2000, 5000}
\* emitterConfig.gravity, added to velocity.y on every update
Gravities == {1}
\* outcomes of the Math.random() draws of Particle.init: spawn x, velocity
Draws == { [x |-> 0, vx |-> 0, vy |-> -2], [x |-> 1, vx |-> 1, vy |-> -3] }

\* ------------------------------------------------------- IEEE-style numbers
NaN == -(10^6)
IsNaN(a) == a = NaN
FAdd(a, b) == IF IsNaN(a) \/ IsNaN(b) THEN NaN ELSE a + b
FSub(a, b) == IF IsNaN(a) \/ IsNaN(b) THEN NaN ELSE a - b
FMul(a, b) == IF IsNaN(a) \/ IsNaN(b) THEN NaN ELSE a * b
FGe(a, b) == ~IsNaN(a) /\ ~IsNaN(b) /\ a >= b
FGt(a, b) == ~IsNaN(a) /\ ~IsNaN(b) /\ a > b

Max(a, b) == IF a >= b THEN a ELSE b
Range(s) == { s[i] : i \in 1..Len(s) }
Count(s, e) == Cardinality({ i \in 1..Len(s) : s[i] = e })

VARIABLES
  ps,        \* the ParticleSystem object: its fields and the sprites it made
  config,    \* emitterConfig
  hist,      \* what the last call did (observation only)
  drv,       \* the ParticleSimulation component and its PixiRenderer
  wasm,      \* the WasmParticleSystemV2 object and the Simulations it made
  canvas,    \* the CanvasRenderer object, its shapes and the clock it reads
  core       \* the CanvasRendererCore object, its modules and its listeners

vars == <<ps, config, hist, drv, wasm, canvas, core>>

\* the objects other than the ParticleSystem
elsewhere == <<drv, wasm, canvas, core>>
\* the objects the ParticleSimulation component does not reach
outsideDriver == <<wasm, canvas, core>>
\* the objects a WasmParticleSystemV2 does not reach
outsideWasm == <<ps, config, drv, canvas, core>>
\* the objects a CanvasRenderer does not reach
outsideCanvas == <<ps, config, drv, wasm, core>>
\* the objects a CanvasRendererCore does not reach
outsideCore == <<ps, config, drv, wasm, canvas>>

\* --------------------------------------------------------------- sprites
\* new Sprite(texture); anchor.set(0.5); visible = false
NewSprite == [visible |-> FALSE, x |-> 0, y |-> 0,
              alpha |-> [num |-> 1, den |-> 1], destroyed |-> FALSE]

\* ------------------------------------------------------- Particle (class)
\* new Particle(cfg); particle.sprite = sprite; particle.init()
\* the particle after init, for the draw d
ParticleInit(cfg, sprite, d) ==
  [sprite |-> sprite, age |-> 0, lifetime |-> cfg.lifetime, active |-> TRUE,
   vx |-> d.vx, vy |-> d.vy, gravity |-> cfg.gravity]

\* what init() writes to the particle's sprite
SpriteInit(cfg, s, d) ==
  [s EXCEPT !.x = d.x, !.y = cfg.y, !.alpha = [num |-> 1, den |-> 1]]

\* Particle.update with the expiry test written age > lifetime
ParticleUpdateLate(p, s, deltaMS) ==
  IF ~p.active
  THEN [p |-> p, s |-> s, alive |-> FALSE]
  ELSE LET age == FAdd(p.age, deltaMS) IN
       IF FGt(age, p.lifetime)
       THEN [p |-> [p EXCEPT !.age = age, !.active = FALSE],
             s |-> [s EXCEPT !.visible = FALSE],
             alive |-> FALSE]
       ELSE [p |-> [p EXCEPT !.age = age, !.vy = p.vy + p.gravity],
             s |-> [s EXCEPT !.x = s.x + p.vx, !.y = s.y + p.vy + p.gravity],
             alive |-> TRUE]

\* Particle.update(deltaMS): the particle, its sprite and the return value
ParticleUpdate(p, s, deltaMS) ==
  IF ~p.active
  THEN [p |-> p, s |-> s, alive |-> FALSE]
  ELSE LET age == FAdd(p.age, deltaMS) IN
       IF FGe(age, p.lifetime)
       THEN [p |-> [p EXCEPT !.age = age, !.active = FALSE],
             s |-> [s EXCEPT !.visible = FALSE],
             alive |-> FALSE]
       ELSE LET vy == p.vy + p.gravity
                fading == FGt(FMul(10, age), 7 * p.lifetime)
            IN [p |-> [p EXCEPT !.age = age, !.vy = vy],
                s |-> [s EXCEPT !.x = s.x + p.vx, !.y = s.y + vy,
                         !.alpha = IF fading
                                   THEN [num |-> Max(0, 8 * (p.lifetime - age)),
                                         den |-> 3 * p.lifetime]
                                   ELSE s.alpha],
                alive |-> TRUE]

\* ------------------------------------------------- ParticleSystem (class)
\* initPool(size): sprites 1..size, all hidden, all in the pool
InitPool(size) ==
  [particles |-> << >>,
   particlePool |-> [i \in 1..size |-> i],
   activeParticles |-> << >>,
   emissionTimer |-> 0,
   sprites |-> [i \in 1..size |-> NewSprite],
   hasResources |-> TRUE]

\* number of sprites ever created (children of particleContainer)
Allocated(sys) == Len(sys.sprites)

\* emit() without sprite.visible = true
EmitHidden(sys, cfg, d) ==
  IF Len(sys.particlePool) = 0 /\ ~sys.hasResources
  THEN sys
  ELSE LET grown == IF Len(sys.particlePool) = 0
                    THEN [sys EXCEPT
                            !.sprites = Append(@, NewSprite),
                            !.particlePool = Append(@, Allocated(sys) + 1)]
                    ELSE sys
           n == Len(grown.particlePool)
           sprite == grown.particlePool[n]
       IN [grown EXCEPT
             !.particlePool = SubSeq(@, 1, n - 1),
             !.sprites[sprite] = SpriteInit(cfg, @, d),
             !.activeParticles = Append(@, sprite),
             !.particles = Append(@, ParticleInit(cfg, sprite, d))]

\* emit() that gives up on an empty pool instead of creating a sprite
EmitFailOnEmpty(sys, cfg, d) ==
  IF Len(sys.particlePool) = 0
  THEN sys
  ELSE LET n == Len(sys.particlePool)
           sprite == sys.particlePool[n]
       IN [sys EXCEPT
             !.particlePool = SubSeq(@, 1, n - 1),
             !.sprites[sprite] =
                [SpriteInit(cfg, @, d) EXCEPT !.visible = TRUE],
             !.activeParticles = Append(@, sprite),
             !.particles = Append(@, ParticleInit(cfg, sprite, d))]

\* emit(): the system after the call; the call returns null exactly when
\* the result equals sys
Emit(sys, cfg, d) ==
  IF Len(sys.particlePool) = 0 /\ ~sys.hasResources
  THEN sys
  ELSE LET grown == IF Len(sys.particlePool) = 0
                    THEN [sys EXCEPT
                            !.sprites = Append(@, NewSprite),
                            !.particlePool = Append(@, Allocated(sys) + 1)]
                    ELSE sys
           n == Len(grown.particlePool)
           sprite == grown.particlePool[n]
       IN [grown EXCEPT
             !.particlePool = SubSeq(@, 1, n - 1),
             !.sprites[sprite] =
                [SpriteInit(cfg, @, d) EXCEPT !.visible = TRUE],
             !.activeParticles = Append(@, sprite),
             !.particles = Append(@, ParticleInit(cfg, sprite, d))]

\* the emission loop written while (this.emissionTimer > 1)
RECURSIVE EmitLoopStrict(_, _, _)
EmitLoopStrict(sys, cfg, ds) ==
  IF FGt(sys.emissionTimer, TimerUnit)
  THEN EmitLoopStrict([Emit(sys, cfg, Head(ds)) EXCEPT
                         !.emissionTimer = FSub(sys.emissionTimer, TimerUnit)],
                      cfg, Tail(ds))
  ELSE sys

\* the emission loop written if (this.emissionTimer >= 1)
EmitLoopOnce(sys, cfg, ds) ==
  IF FGe(sys.emissionTimer, TimerUnit)
  THEN [Emit(sys, cfg, Head(ds)) EXCEPT
          !.emissionTimer = FSub(sys.emissionTimer, TimerUnit)]
  ELSE sys

\* while (this.emissionTimer >= 1) { this.emit(); this.emissionTimer -= 1; }
\* ds holds the random draws of the successive emits
RECURSIVE EmitLoop(_, _, _)
EmitLoop(sys, cfg, ds) ==
  IF FGe(sys.emissionTimer, TimerUnit)
  THEN EmitLoop([Emit(sys, cfg, Head(ds)) EXCEPT
                   !.emissionTimer = FSub(sys.emissionTimer, TimerUnit)],
                cfg, Tail(ds))
  ELSE sys

\* iterations of the emission loop for a timer value
LoopCount(timer) ==
  IF FGe(timer, TimerUnit) THEN timer \div TimerUnit ELSE 0

\* activeParticles.indexOf(sprite); splice(index, 1)
RECURSIVE RemoveFirst(_, _)
RemoveFirst(s, e) ==
  IF s = << >> THEN << >>
  ELSE IF Head(s) = e THEN Tail(s)
  ELSE <<Head(s)>> \o RemoveFirst(Tail(s), e)

\* particles.delete(sprite)
MapDelete(m, sprite) == SelectSeq(m, LAMBDA p : p.sprite # sprite)

\* the retirement without this.particlePool.push(sprite)
ReleaseSpriteLeak(sys, sprite) ==
  [sys EXCEPT
     !.particles = MapDelete(@, sprite),
     !.activeParticles = RemoveFirst(@, sprite),
     !.sprites[sprite].visible = FALSE]

\* the retirement without the splice of activeParticles
ReleaseSpriteKeepActive(sys, sprite) ==
  [sys EXCEPT
     !.particles = MapDelete(@, sprite),
     !.sprites[sprite].visible = FALSE,
     !.particlePool = Append(@, sprite)]

\* the retirement with the push written twice
ReleaseSpriteTwice(sys, sprite) ==
  [sys EXCEPT
     !.particles = MapDelete(@, sprite),
     !.activeParticles = RemoveFirst(@, sprite),
     !.sprites[sprite].visible = FALSE,
     !.particlePool = Append(Append(@, sprite), sprite)]

\* body of deadParticles.forEach: retire one sprite
ReleaseSprite(sys, sprite) ==
  [sys EXCEPT
     !.particles = MapDelete(@, sprite),
     !.activeParticles = RemoveFirst(@, sprite),
     !.sprites[sprite].visible = FALSE,
     !.particlePool = Append(@, sprite)]

RECURSIVE ReleaseAll(_, _)
ReleaseAll(sys, dead) ==
  IF dead = << >> THEN sys
  ELSE ReleaseAll(ReleaseSprite(sys, Head(dead)), Tail(dead))

\* this.particles.forEach(...): every particle of the map is advanced and
\* the sprites of those that returned false are collected, in map order
AdvanceAll(sys, deltaMS) ==
  LET r == [i \in 1..Len(sys.particles) |->
              ParticleUpdate(sys.particles[i],
                             sys.sprites[sys.particles[i].sprite], deltaMS)]
      idx(id) == CHOOSE i \in 1..Len(sys.particles) :
                    sys.particles[i].sprite = id
  IN [sys |-> [sys EXCEPT
                 !.particles = [i \in 1..Len(sys.particles) |-> r[i].p],
                 !.sprites = [id \in 1..Len(sys.sprites) |->
                                IF \E i \in 1..Len(sys.particles) :
                                      sys.particles[i].sprite = id
                                THEN r[idx(id)].s
                                ELSE sys.sprites[id]]],
      keys |-> [i \in 1..Len(sys.particles) |-> r[i].p.sprite],
      alive |-> [i \in 1..Len(sys.particles) |-> r[i].alive]]

\* deadParticles: the keys whose particle.update returned false, in order
RECURSIVE DeadOf(_, _)
DeadOf(keys, alive) ==
  IF keys = << >> THEN << >>
  ELSE (IF Head(alive) THEN << >> ELSE <<Head(keys)>>)
       \o DeadOf(Tail(keys), Tail(alive))

\* update(deltaMS, emissionRate)
Update(sys, cfg, deltaMS, emissionRate, ds) ==
  LET timed == [sys EXCEPT
                  !.emissionTimer = FAdd(@, FMul(emissionRate, deltaMS))]
      emitted == EmitLoop(timed, cfg, ds)
      adv == AdvanceAll(emitted, deltaMS)
  IN ReleaseAll(adv.sys, DeadOf(adv.keys, adv.alive))

\* getActiveParticleCount()
GetActiveParticleCount(sys) == Len(sys.activeParticles)

\* cleanup() without this.particlePool = []
CleanupKeepPool(sys) ==
  [sys EXCEPT
     !.sprites = [id \in 1..Len(sys.sprites) |->
                    IF id \in Range(sys.activeParticles)
                             \cup Range(sys.particlePool)
                    THEN [sys.sprites[id] EXCEPT !.destroyed = TRUE]
                    ELSE sys.sprites[id]],
     !.activeParticles = << >>,
     !.particles = << >>]

\* cleanup(): destroy every sprite of both arrays, then empty the arrays
\* and the map; emissionTimer is not touched
Cleanup(sys) ==
  [sys EXCEPT
     !.sprites = [id \in 1..Len(sys.sprites) |->
                    IF id \in Range(sys.activeParticles)
                             \cup Range(sys.particlePool)
                    THEN [sys.sprites[id] EXCEPT !.destroyed = TRUE]
                    ELSE sys.sprites[id]],
     !.activeParticles = << >>,
     !.particlePool = << >>,
     !.particles = << >>]

\* ------------------------------------------- WasmParticleSystemV2 (class)
\* private targetParticleCount: number = 1000
DefaultTarget == 1000
\* particle counts asked for, scaled down
WasmCounts == {1, 2}
\* positions (x, y, z) a tick reports, at distances 0, 3 and 10
WasmPositions == { <<0, 0, 0>>, <<1, 2, 2>>, <<6, 8, 0>> }

Min(a, b) == IF a <= b THEN a ELSE b

\* Math.sqrt on the sums of squares used here, rounded down
Sqrt(n) == CHOOSE r \in 0..n : r * r <= n /\ n < (r + 1) * (r + 1)

\* the alpha written 1.0 + normalizedDistance * 0.8
WasmAlphaBrighter(pos) ==
  LET distance == Sqrt(pos[1] * pos[1] + pos[2] * pos[2] + pos[3] * pos[3])
      normalizedDistance == Min((distance * 1000) \div 5, 1000)
  IN [num |-> Max(100, 1000 + (normalizedDistance * 8) \div 10),
      den |-> 1000]

\* update, lines 136-140: the alpha of a particle at position pos, in
\* thousandths
\*   normalizedDistance = Math.min(distance / 5.0, 1.0)
\*   alpha = Math.max(0.1, 1.0 - normalizedDistance * 0.8)
WasmAlpha(pos) ==
  LET distance == Sqrt(pos[1] * pos[1] + pos[2] * pos[2] + pos[3] * pos[3])
      normalizedDistance == Min((distance * 1000) \div 5, 1000)
  IN [num |-> Max(100, 1000 - (normalizedDistance * 8) \div 10),
      den |-> 1000]

\* new WasmParticleSystemV2(texture, emitterConfig)
\*   particleList    the alpha of each PixiJS particle, in thousandths
\*   sims            every Simulation made so far: its particle count and
\*                   how often free() was called on it
\*   wasmSimulation  0 for null, else an index of sims
\*   pending         the counts of the initialize calls waiting at init()
WasmNew ==
  [particleList |-> << >>, sims |-> << >>, wasmSimulation |-> 0,
   isInitialized |-> FALSE, targetParticleCount |-> DefaultTarget,
   pending |-> << >>]

\* initialize(particleCount) up to await init()
WasmInitializeStart(w, particleCount) ==
  [w EXCEPT !.targetParticleCount = particleCount,
            !.pending = Append(@, particleCount)]

\* initialize(particleCount) from await init() on, for the call that
\* waited longest; initOk: init() resolved, simOk: new Simulation returned.
\* Either failure ends in the outer catch, which returns false
WasmInitializeResume(w, initOk, simOk) ==
  LET particleCount == Head(w.pending) IN
  IF initOk /\ simOk
  THEN [w EXCEPT !.pending = Tail(@),
          !.sims = Append(@, [count |-> particleCount, frees |-> 0]),
          !.wasmSimulation = Len(w.sims) + 1,
          !.particleList =
             @ \o [i \in 1..particleCount |-> [num |-> 1000, den |-> 1000]],
          !.isInitialized = TRUE]
  ELSE [w EXCEPT !.pending = Tail(@)]

\* this.wasmSimulation.free()
WasmFree(w) == [w EXCEPT !.sims[w.wasmSimulation].frees = @ + 1]

\* the Simulation the field refers to has been freed already
WasmStale(w) ==
  w.wasmSimulation # 0 /\ w.sims[w.wasmSimulation].frees > 0

\* setParticleCount(count) up to the await inside initialize; threw: the
\* free() call threw, which ends the call
WasmSetParticleCount(w, count, threw) ==
  IF count = w.targetParticleCount THEN w
  ELSE IF w.wasmSimulation # 0
  THEN IF threw THEN WasmFree(w)
       ELSE WasmInitializeStart(WasmFree(w), count)
  ELSE WasmInitializeStart(w, count)

\* what update calls tick() on: nothing, a live Simulation or a freed one
WasmTicked(w) ==
  IF ~w.isInitialized \/ w.wasmSimulation = 0 THEN "none"
  ELSE IF WasmStale(w) THEN "freed" ELSE "live"

\* update(deltaTime); returned: tick() returned positions (it did not throw)
WasmUpdate(w, positions, returned) ==
  IF WasmTicked(w) = "none" \/ ~returned THEN w
  ELSE [w EXCEPT !.particleList =
          [i \in 1..Len(w.particleList) |->
             IF i <= Min(Len(positions), Len(w.particleList))
             THEN WasmAlpha(positions[i])
             ELSE w.particleList[i]]]

\* cleanup(); threw: the free() call threw, so the field is not cleared
WasmCleanup(w, threw) ==
  [(IF w.wasmSimulation # 0
    THEN IF threw THEN WasmFree(w)
         ELSE [WasmFree(w) EXCEPT !.wasmSimulation = 0]
    ELSE w)
   EXCEPT !.particleList = << >>, !.isInitialized = FALSE]

\* ------------------------------------------------- CanvasRenderer (class)
\* the Add buttons (500, 1000), scaled down
AddCounts == {1, 2}
\* milliseconds that pass between two readings of Date.now()
Gaps == {0, 1}
\* ticker.deltaTime / 60, in units of a frame
CanvasDeltas == {1}
\* window.innerWidth and window.innerHeight, scaled down
Width == 3
\* Math.random() * window.innerWidth, Math.random() * window.innerHeight
Places == { <<0, 0>>, <<2, 1>> }

\* Math.sin at a whole phase, on a cycle of four phases, in units of 1
Wave(phase) == <<0, 1, 0, -1>>[(phase % 4) + 1]

\* a Graphics as addObjects makes it, at place xy
NewGraphic(xy) == [x |-> xy[1], y |-> xy[2], rotation |-> 0, scale |-> 4]

\* new CanvasRenderer(containerElement), initialize() having returned true
\*   stage     the children of this.stage, in order
\*   objects   the Map from id to child (an index of stage)
\*   sim       this.wasmSimulation is not null
\*   simSteps  calls of update_transformations so far
\*   renders   how many times this.render is on the ticker
\*   now       Date.now() at the last call
CanvasNew(sim) ==
  [stage |-> << >>, objects |-> << >>, objectCount |-> 0,
   isAnimating |-> FALSE, sim |-> sim, simObjects |-> 0, simSteps |-> 0,
   renders |-> 0, now |-> 0]

\* ticker.remove(this.render, this): no registration of render is left
TickerRemove(n) == 0
\* ticker.add(this.render, this): one more registration
TickerAdd(n) == n + 1

\* startRenderLoop() without the ticker.remove
StartRenderLoopAddOnly(c) == [c EXCEPT !.renders = TickerAdd(@)]

\* startRenderLoop(): ticker.remove, then ticker.add
StartRenderLoop(c) == [c EXCEPT !.renders = TickerAdd(TickerRemove(@))]

\* Map.set(id, g)
MapSet(m, id, g) ==
  [k \in DOMAIN m \cup {id} |-> IF k = id THEN g ELSE m[k]]

\* the loop of addObjects from i on: id = Date.now() + i, addChild, set
RECURSIVE AddLoop(_, _, _, _)
AddLoop(c, i, count, places) ==
  IF i < count
  THEN AddLoop([c EXCEPT
                  !.stage = Append(@, NewGraphic(places[i + 1])),
                  !.objects = MapSet(@, c.now + i, Len(c.stage) + 1)],
               i + 1, count, places)
  ELSE c

\* addObjects(count) at the time c.now; created: batch_create_test_objects
\* returned (it did not throw)
AddObjects(c, count, places, created) ==
  LET added == AddLoop(c, 0, count, places)
      batched == IF c.sim /\ created
                 THEN [added EXCEPT !.simObjects = @ + count]
                 ELSE added
  IN StartRenderLoop([batched EXCEPT !.objectCount = @ + count])

\* clearObjects()
ClearObjects(c) ==
  [c EXCEPT !.stage = << >>, !.objects = << >>, !.simObjects = 0,
            !.objectCount = 0]

\* getObjectCount()
GetObjectCount(c) == c.objectCount

\* toggleAnimation(): the renderer after the call and the value returned
ToggleAnimation(c) ==
  [c |-> [c EXCEPT !.isAnimating = ~c.isAnimating,
                   !.renders = IF ~c.isAnimating
                               THEN TickerAdd(TickerRemove(@)) ELSE @],
   returned |-> ~c.isAnimating]

\* updateObjects(deltaTime) at the time c.now: the simulation is advanced,
\* then every child in the map is rotated, pulsed, moved and wrapped
UpdateObjects(c, deltaTime) ==
  LET time == c.now
      tracked == { c.objects[id] : id \in DOMAIN c.objects }
      IdOf(g) == CHOOSE id \in DOMAIN c.objects : c.objects[id] = g
      Wrap(v) == IF v < 0 THEN Width ELSE IF v > Width THEN 0 ELSE v
      Moved(g) ==
        LET id == IdOf(g) IN
        [c.stage[g] EXCEPT
           !.rotation = @ + deltaTime,
           !.scale = 4 + Wave(time * 2 + id),
           !.x = Wrap(@ + Wave(time + id) * deltaTime),
           !.y = Wrap(@ + Wave(time + id + 1) * deltaTime)]
  IN [c EXCEPT
        !.simSteps = IF c.sim THEN @ + 1 ELSE @,
        !.stage = [g \in 1..Len(c.stage) |->
                     IF g \in tracked THEN Moved(g) ELSE c.stage[g]]]

\* render that updates the objects whatever the flag says
RenderAlways(c, deltaTime) == UpdateObjects(c, deltaTime)

\* render(ticker)
Render(c, deltaTime) ==
  IF c.isAnimating THEN UpdateObjects(c, deltaTime) ELSE c

\* -------------------------------------------- CanvasRendererCore (class)
\* with its InteractionHandler, CanvasObjectFactory and AnimationControllers
\* the counts the harness asks for, scaled down
CoreCounts == {1, 2}
\* TestMode values the harness selects
TestModes == {"static", "rotating", "interactive"}
White == "0xFFFFFF"
Green == "0x00FF00"

\* a Map with no entries
EmptyMap == [id \in {} |-> 0]

\* the CanvasObject the factory makes: selected false, rotation 0, and its
\* graphic (tint, rotation)
NewCanvasObject ==
  [selected |-> FALSE, rotation |-> 0, tint |-> White, graphicRotation |-> 0]

\* new CanvasRendererCore(containerElement, wasmSimulation)
\*   maps             the Map objects made so far; the three modules hold
\*                    references (indices) to them
\*   stage            number of children of this.stage
\*   selectedObjects  the InteractionHandler's Set
\*   sim              this.wasmSimulation is not null
\*   simIds           the ids add_object stored in the WASM simulation
\*   addFailed        an add_object call threw
\*   binds            function objects made by .bind(this) so far; the
\*                    n-th one is called n
\*   windowListeners  the resize listeners this object put on window
\*   tickerListeners  the callbacks this object put on app.ticker
\*   tickerStopped    app.destroy() has stopped the ticker
\*   lateResize       onResize ran after destroy() had returned
\*   lateRender       render ran after destroy() had returned
CoreNew(sim) ==
  [maps |-> << EmptyMap >>, objects |-> 1, handlerObjects |-> 1,
   controllerObjects |-> 1, stage |-> 0, selectedObjects |-> {},
   testMode |-> "static", sim |-> sim, simIds |-> << >>,
   addFailed |-> FALSE, objectCount |-> 0,
   binds |-> 1, windowListeners |-> << 1 >>, tickerListeners |-> << >>,
   destroyed |-> FALSE, tickerStopped |-> FALSE,
   lateResize |-> FALSE, lateRender |-> FALSE]

\* CanvasObjectFactory.createObjects(count, ...): ids 0 .. count - 1
FactoryCreateObjects(count) == [id \in 0..(count - 1) |-> NewCanvasObject]

\* clearObjects(): the factory removes and destroys the graphics of the
\* map, then the map is emptied
CoreClearObjects(k) ==
  [k EXCEPT !.stage = @ - Cardinality(DOMAIN k.maps[k.objects]),
            !.maps[k.objects] = EmptyMap]

\* InteractionHandler.clearSelection()
ClearSelection(k) == [k EXCEPT !.selectedObjects = {}]

\* updateObjectsReference of the InteractionHandler without clearSelection
HandlerUpdateObjectsReferenceKeep(k, m) == [k EXCEPT !.handlerObjects = m]

\* InteractionHandler.updateObjectsReference(objects)
HandlerUpdateObjectsReference(k, m) ==
  ClearSelection([k EXCEPT !.handlerObjects = m])

\* InteractionHandler.onObjectPointerDown(event, objectId)
OnObjectPointerDown(k, objectId) ==
  LET m == k.maps[k.handlerObjects] IN
  IF objectId \notin DOMAIN m THEN k
  ELSE IF objectId \in k.selectedObjects
  THEN [k EXCEPT !.selectedObjects = @ \ {objectId},
                 !.maps[k.handlerObjects][objectId].selected = FALSE,
                 !.maps[k.handlerObjects][objectId].tint = White]
  ELSE [k EXCEPT !.selectedObjects = @ \cup {objectId},
                 !.maps[k.handlerObjects][objectId].selected = TRUE,
                 !.maps[k.handlerObjects][objectId].tint = Green]

\* the ids 0 .. count - 1 in the order Map.forEach visits them
IdsInOrder(count) == [i \in 1..count |-> i - 1]

\* createObjects(count); thrown: the ids for which add_object threw
CoreCreateObjects(k, count, thrown) ==
  LET cleared == CoreClearObjects(k)
      made == [cleared EXCEPT
                 !.maps = Append(@, FactoryCreateObjects(count)),
                 !.stage = @ + count,
                 !.objects = Len(cleared.maps) + 1]
      handled == HandlerUpdateObjectsReference(made, made.objects)
      told == [handled EXCEPT !.controllerObjects = made.objects,
                              !.objectCount = count]
  IN IF told.sim
     THEN [told EXCEPT
             !.simIds = @ \o SelectSeq(IdsInOrder(count),
                                       LAMBDA id : id \notin thrown),
             !.addFailed = @ \/ thrown # {}]
     ELSE told

\* resetObjectStates()
ResetObjectStates(k) ==
  ClearSelection(
    [k EXCEPT !.maps[k.objects] =
       [id \in DOMAIN @ |->
          [@[id] EXCEPT !.graphicRotation = 0, !.tint = White,
                        !.selected = FALSE]]])

\* setTestMode(mode)
CoreSetTestMode(k, mode) == ResetObjectStates([k EXCEPT !.testMode = mode])

\* updateObjects(): in the rotating mode every object of the controllers'
\* map turns by one step (0.5 * deltaTime)
CoreUpdateObjects(k) ==
  IF k.testMode = "rotating"
  THEN LET m == k.maps[k.controllerObjects]
       IN [k EXCEPT !.maps[k.controllerObjects] =
             [id \in DOMAIN m |->
                [m[id] EXCEPT !.rotation = m[id].rotation + 1,
                              !.graphicRotation = m[id].rotation + 1]]]
  ELSE k

\* render()
CoreRender(k) == CoreUpdateObjects(k)

\* a listener list without the function fn
RemoveListener(listeners, fn) == SelectSeq(listeners, LAMBDA f : f # fn)

\* startRenderLoop(): ticker.add(this.render.bind(this))
CoreStartRenderLoop(k) ==
  [k EXCEPT !.binds = @ + 1, !.tickerListeners = Append(@, k.binds + 1)]

\* destroy(): removeEventListener and ticker.remove are handed functions
\* that bind has just made; stopsTicker: app.destroy() stops the ticker
\* and drops its callbacks
CoreDestroy(k, stopsTicker) ==
  LET unlistened ==
        [k EXCEPT !.binds = @ + 2,
                  !.windowListeners = RemoveListener(@, k.binds + 1),
                  !.tickerListeners = RemoveListener(@, k.binds + 2)]
      cleared == CoreClearObjects(unlistened)
  IN [cleared EXCEPT !.destroyed = TRUE,
                     !.tickerStopped = stopsTicker,
                     !.tickerListeners = IF stopsTicker THEN << >> ELSE @]

\* ---------------------------------------------------------------- state
Configs == [lifetime : Lifetimes, gravity : Gravities, y : {0}]

\* observations of the last call: its inputs, a few values from before it
\* (timer0, pool0, active0, alloc0), what it did, and whether it left the
\* object as it was (same)
NoHist ==
  [op |-> "new", prevOp |-> "new", deltaMS |-> 0, rate |-> 0,
   timer0 |-> 0, pool0 |-> 0, active0 |-> 0, alloc0 |-> 0,
   units |-> 0, added |-> 0, dead |-> << >>, same |-> TRUE,
   sprite |-> 0, again |-> FALSE,
   ticks |-> 0, calls |-> 0, total |-> 0, T |-> 0, dt |-> 0,
   changes |-> 0, ticked |-> "none", frames |-> 0,
   returned |-> FALSE, flag0 |-> FALSE, count0 |-> 0, delta |-> 0,
   age0 |-> 0, advanced |-> 0]

Before(h, sys) ==
  [h EXCEPT !.prevOp = h.op,
            !.timer0 = sys.emissionTimer,
            !.pool0 = Len(sys.particlePool),
            !.active0 = Len(sys.activeParticles),
            !.alloc0 = Allocated(sys),
            !.again = FALSE]

\* ------------------------------- ParticleSimulation component: its state
\* createSignal<number>(5000)
InitialCount == 5000
\* Math.max(1000, particleCount() + delta)
MinCount == 1000

\* the component as created: signals, let-variables, a PixiRenderer whose
\* app, container and texture are null, initializePixi not yet started
\*   phase       where initializePixi stands
\*   registered  animate has been added to the ticker
\*   success     what renderer.initialize returned
\*   system      particleSystem is not null
\*   cleaned     onCleanup has run
\*   errors      the catch block of animate has run
\*   late        update was called after onCleanup had returned
NoDriver ==
  [particleCount |-> InitialCount, status |-> "Initializing...",
   phase |-> "unmounted", app |-> FALSE, container |-> FALSE,
   texture |-> FALSE, isInitialized |-> FALSE,
   success |-> FALSE, registered |-> FALSE, system |-> FALSE,
   cleaned |-> FALSE, errors |-> FALSE, late |-> FALSE]

\* new ParticleSystem(container, texture, emitterConfig)
Init ==
  /\ config \in Configs
  /\ ps = InitPool(PoolSize)
  /\ hist = NoHist
  /\ drv = NoDriver
  /\ wasm = WasmNew
  /\ canvas = CanvasNew(FALSE)
  /\ core = CoreNew(FALSE)

\* one call of update(deltaMS, emissionRate), with what it did recorded;
\* the random numbers of its emits are taken from draws
UpdateCallWith(deltaMS, emissionRate, draws) ==
  LET timer == FAdd(ps.emissionTimer, FMul(emissionRate, deltaMS))
      n == LoopCount(timer)
      timed == [ps EXCEPT !.emissionTimer = timer]
  IN /\ Allocated(ps) + Max(0, n - Len(ps.particlePool)) <= MaxSprites
     /\ \E ds \in [1..n -> draws] :
          LET emitted == EmitLoop(timed, config, ds)
              adv == AdvanceAll(emitted, deltaMS)
              after == Update(ps, config, deltaMS, emissionRate, ds)
              added == Len(emitted.activeParticles) - Len(ps.activeParticles)
          IN /\ ps' = after
             /\ hist' = [Before(hist, ps) EXCEPT
                    !.op = "update",
                    !.deltaMS = deltaMS, !.rate = emissionRate,
                    !.units = IF IsNaN(timer) THEN 0
                              ELSE (timer - emitted.emissionTimer)
                                      \div TimerUnit,
                    !.added = added,
                    !.dead = DeadOf(adv.keys, adv.alive),
                    !.advanced = Len(adv.keys),
                    !.same = (after = ps),
                    !.ticks = @ + 1,
                    !.total = IF hist.dt = 0 THEN 0 ELSE @ + added]
     /\ UNCHANGED config

\* one call of update with any of the random numbers
UpdateCall(deltaMS, emissionRate) ==
  UpdateCallWith(deltaMS, emissionRate, Draws)

\* the frame callback: update(ticker.deltaMS, particleCount())
Tick ==
  /\ hist.ticks < MaxTicks
  /\ \E deltaMS \in Deltas, rate \in Rates : UpdateCall(deltaMS, rate)
  /\ UNCHANGED elsewhere

Next == Tick

Spec == Init /\ [][Next]_vars

\* ------------------------------------------- one target, one tick length
\* the emission window in milliseconds
WindowMs == EmissionWindow * MsPerSecond
WindowTargets == 1..MaxTarget
WindowDeltas == {1000, 2000, 2500, 5000}

\* an empty system whose particles live one emission window, driven with a
\* constant target and a constant tick length
InitWindow ==
  /\ config \in [lifetime : {WindowMs}, gravity : Gravities, y : {0}]
  /\ ps = InitPool(PoolSize)
  /\ \E T \in WindowTargets, dt \in WindowDeltas :
       hist = [NoHist EXCEPT !.T = T, !.dt = dt]
  /\ drv = NoDriver
  /\ wasm = WasmNew
  /\ canvas = CanvasNew(FALSE)
  /\ core = CoreNew(FALSE)

WindowTick ==
  /\ hist.ticks * hist.dt < MaxWindows * WindowMs
  /\ UpdateCall(hist.dt, hist.T)
  /\ UNCHANGED elsewhere

SpecWindow == InitWindow /\ [][WindowTick]_vars

\* ------------------------------------------------------ update and cleanup
CleanupCall ==
  /\ hist.calls < MaxCalls
  /\ ps' = Cleanup(ps)
  /\ hist' = [Before(hist, ps) EXCEPT
         !.op = "cleanup", !.units = 0, !.added = 0, !.dead = << >>,
         !.same = (Cleanup(ps) = ps), !.calls = @ + 1]
  /\ UNCHANGED config
  /\ UNCHANGED elsewhere

NextCleanup == Tick \/ CleanupCall

SpecCleanup == Init /\ [][NextCleanup]_vars

\* ------------------------------------ update called with any number at all
DegenerateDeltas == {-1000, NaN}

TickAny ==
  /\ hist.ticks < MaxTicks
  /\ \E deltaMS \in Deltas \cup DegenerateDeltas, rate \in Rates :
       UpdateCall(deltaMS, rate)
  /\ UNCHANGED elsewhere

SpecDegenerate == Init /\ [][TickAny]_vars

\* ------------------------------------------- the release step, on its own
\* the body of deadParticles.forEach applied to an active sprite, or once
\* more to the sprite it has just been applied to
ReleaseCall ==
  /\ hist.calls < MaxCalls
  /\ \E sprite \in Range(ps.activeParticles)
                     \cup (IF hist.op = "release" THEN {hist.sprite} ELSE {}) :
       /\ ps' = ReleaseSprite(ps, sprite)
       /\ hist' = [Before(hist, ps) EXCEPT
              !.op = "release", !.units = 0, !.added = 0,
              !.dead = <<sprite>>,
              !.same = (ReleaseSprite(ps, sprite) = ps),
              !.sprite = sprite, !.calls = @ + 1,
              !.again = (hist.op = "release" /\ hist.sprite = sprite)]
  /\ UNCHANGED config
  /\ UNCHANGED elsewhere

NextRelease == Tick \/ ReleaseCall

SpecRelease == Init /\ [][NextRelease]_vars

\* ------------------------------------- ParticleSimulation: the frame driver
\* the buttons of ParticleControls
CountDeltas == {1000, -1000}
\* ticker.deltaMS of a running display, in milliseconds
FrameDeltas == {1, 2}

\* Math.random() of the emits of a frame: the straight upward particle
FrameDraws == { d \in Draws : d.vx = 0 }

\* particleSystem before initializePixi has made one (null)
NoSystem == [InitPool(0) EXCEPT !.hasResources = FALSE]

\* updateParticleCount that also restarts the emission of the system
UpdateParticleCountRestart(d, sys, delta) ==
  [drv |-> [d EXCEPT !.particleCount = Max(MinCount, @ + delta),
                     !.status = "Particle count updated"],
   ps |-> [sys EXCEPT !.emissionTimer = 0]]

\* updateParticleCount(delta): the component and the system after the call
UpdateParticleCount(d, sys, delta) ==
  [drv |-> [d EXCEPT !.particleCount = Max(MinCount, @ + delta),
                     !.status = "Particle count updated"],
   ps |-> sys]

\* animate handing update the target as a rate per second
AnimateRatePerSecond(d) == d.particleCount * EmissionWindow

\* the second argument animate gives update: particleCount()
AnimateRate(d) == d.particleCount

\* PixiRenderer.initialize up to its first await:
\*   this.app = new Application(); await this.app.init(...)
InitializeStart(d) ==
  [d EXCEPT !.phase = "appInit", !.app = TRUE,
            !.status = "Initializing PixiJS..."]

\* PixiRenderer.initialize from app.init to its second await; ok tells
\* whether app.init resolved.  this.app.canvas throws when cleanup has set
\* app to null, and the catch block returns false
InitializeResume(d, ok) ==
  IF ok /\ d.app
  THEN [d EXCEPT !.phase = "texture", !.container = TRUE]
  ELSE [d EXCEPT !.phase = "returned", !.success = FALSE]

\* PixiRenderer.initialize from createParticleTexture to return true
InitializeFinish(d) ==
  [d EXCEPT !.phase = "returned", !.texture = TRUE,
            !.isInitialized = TRUE, !.success = TRUE]

\* PixiRenderer.addTickerCallback
AddTickerCallback(d) ==
  IF d.app THEN [d EXCEPT !.registered = TRUE] ELSE d

\* initializePixi after await renderer.initialize; built tells whether
\* new ParticleSystem returned (TRUE) or threw (FALSE)
InitializePixiResume(d, sys, built) ==
  IF ~d.success
  THEN [drv |-> [d EXCEPT !.phase = "done",
                          !.status = "Failed to initialize PixiJS"],
        ps |-> sys]
  ELSE IF d.container /\ d.texture
  THEN IF built
       THEN [drv |-> [AddTickerCallback([d EXCEPT !.system = TRUE])
                        EXCEPT !.phase = "done", !.status = "Ready!"],
             ps |-> InitPool(PoolSize)]
       ELSE [drv |-> [d EXCEPT !.phase = "done", !.status = "Error"],
             ps |-> sys]
  ELSE [drv |-> [d EXCEPT !.phase = "done"], ps |-> sys]

\* PixiRenderer.cleanup
RendererCleanup(d) ==
  [d EXCEPT !.app = FALSE, !.container = FALSE, !.texture = FALSE,
            !.isInitialized = FALSE]

\* onCleanup that keeps its reference to the particle system
OnCleanupKeepSystem(d, sys) ==
  [drv |-> [RendererCleanup(d) EXCEPT !.cleaned = TRUE],
   ps |-> IF d.system THEN Cleanup(sys) ELSE sys]

\* onCleanup: renderer.cleanup(); if (particleSystem) { cleanup(); = null }
OnCleanup(d, sys) ==
  [drv |-> [RendererCleanup(d) EXCEPT !.cleaned = TRUE, !.system = FALSE],
   ps |-> IF d.system THEN Cleanup(sys) ELSE sys]

\* the component is created and its container element is rendered: the ref
\* callback starts initializePixi, which runs to the first await
InitDriver ==
  /\ config \in { c \in Configs : c.lifetime = WindowMs }
  /\ ps = NoSystem
  /\ hist = NoHist
  /\ drv = InitializeStart(NoDriver)
  /\ wasm = WasmNew
  /\ canvas = CanvasNew(FALSE)
  /\ core = CoreNew(FALSE)

\* the observations after a call that is not an update: the counters stay
Note(op) ==
  [NoHist EXCEPT !.prevOp = hist.op, !.op = op, !.ticks = hist.ticks,
                 !.calls = hist.calls, !.changes = hist.changes,
                 !.frames = hist.frames]

\* app.init settles
AppInitSettles ==
  /\ drv.phase = "appInit"
  /\ \E ok \in BOOLEAN : drv' = InitializeResume(drv, ok)
  /\ hist' = Note("appInit")
  /\ UNCHANGED <<ps, config>>
  /\ UNCHANGED outsideDriver

\* createParticleTexture settles
TextureSettles ==
  /\ drv.phase = "texture"
  /\ drv' = InitializeFinish(drv)
  /\ hist' = Note("texture")
  /\ UNCHANGED <<ps, config>>
  /\ UNCHANGED outsideDriver

\* renderer.initialize settles and initializePixi goes on
InitializeSettles ==
  /\ drv.phase = "returned"
  /\ \E built \in BOOLEAN :
       LET r == InitializePixiResume(drv, ps, built)
       IN drv' = r.drv /\ ps' = r.ps
  /\ hist' = Note("initialized")
  /\ UNCHANGED config
  /\ UNCHANGED outsideDriver

\* a button of ParticleControls is clicked
SetTarget ==
  /\ hist.changes < MaxChanges
  /\ \E delta \in CountDeltas :
       LET r == UpdateParticleCount(drv, ps, delta)
       IN /\ drv' = r.drv
          /\ ps' = r.ps
          /\ hist' = [Note("setTarget") EXCEPT
                        !.same = (r.ps = ps), !.changes = @ + 1]
  /\ UNCHANGED config
  /\ UNCHANGED outsideDriver

\* the ticker calls animate and particleSystem is not null: update runs
\* and returns
Frame ==
  /\ drv.registered
  /\ drv.system
  /\ hist.ticks < MaxTicks
  /\ \E deltaMS \in FrameDeltas :
       UpdateCallWith(deltaMS, AnimateRate(drv), FrameDraws)
  /\ drv' = [drv EXCEPT !.late = @ \/ drv.cleaned]
  /\ UNCHANGED outsideDriver

\* the ticker calls animate and particleSystem is not null: a call made by
\* the first emit of update throws after the timer has been advanced, and
\* the catch block of animate logs the error
FrameThrows ==
  /\ drv.registered
  /\ drv.system
  /\ hist.ticks < MaxTicks
  /\ \E deltaMS \in FrameDeltas :
       LET timer == FAdd(ps.emissionTimer,
                         FMul(AnimateRate(drv), deltaMS))
       IN /\ LoopCount(timer) >= 1
          /\ ps' = [ps EXCEPT !.emissionTimer = timer]
          /\ hist' = [Before(hist, ps) EXCEPT
                        !.op = "throw", !.deltaMS = deltaMS,
                        !.rate = AnimateRate(drv), !.ticks = @ + 1]
  /\ drv' = [drv EXCEPT !.errors = TRUE, !.late = @ \/ drv.cleaned]
  /\ UNCHANGED config
  /\ UNCHANGED outsideDriver

\* the ticker calls animate and particleSystem is null
FrameIdle ==
  /\ drv.registered
  /\ ~drv.system
  /\ hist.op # "idle"
  /\ hist' = Note("idle")
  /\ UNCHANGED <<ps, config, drv>>
  /\ UNCHANGED outsideDriver

\* the component is disposed of (a second call stands for a second disposal)
CleanupRuns ==
  /\ hist.calls < MaxCalls
  /\ LET r == OnCleanup(drv, ps)
     IN /\ drv' = r.drv
        /\ ps' = r.ps
        /\ hist' = [Note("cleanup") EXCEPT
                      !.again = drv.cleaned,
                      !.same = (r.drv = drv /\ r.ps = ps),
                      !.calls = @ + 1]
  /\ UNCHANGED config
  /\ UNCHANGED outsideDriver

NextDriver ==
  \/ AppInitSettles
  \/ TextureSettles
  \/ InitializeSettles
  \/ SetTarget
  \/ Frame
  \/ FrameThrows
  \/ FrameIdle
  \/ CleanupRuns

SpecDriver == InitDriver /\ [][NextDriver]_vars

\* ------------------------------- updateParticleCount with any of its deltas
\* the buttons of both versions of ParticleControls
RequestDeltas == CountDeltas \cup {-5000}

\* updateParticleCount(delta) is called
SetTargetAny ==
  /\ hist.changes < MaxChanges
  /\ \E delta \in RequestDeltas :
       LET r == UpdateParticleCount(drv, ps, delta)
       IN /\ drv' = r.drv
          /\ ps' = r.ps
          /\ hist' = [Note("setTarget") EXCEPT
                        !.same = (r.ps = ps), !.changes = @ + 1,
                        !.count0 = drv.particleCount, !.delta = delta]
  /\ UNCHANGED config
  /\ UNCHANGED outsideDriver

NextSetter ==
  \/ AppInitSettles
  \/ TextureSettles
  \/ InitializeSettles
  \/ SetTargetAny
  \/ Frame

SpecSetter == InitDriver /\ [][NextSetter]_vars

\* ------------------------------------ WasmParticleSystemV2 and its callers
\* initialize(count) or setParticleCount(count) is called
WasmInitializeCall ==
  /\ hist.changes < MaxChanges
  /\ \E count \in WasmCounts :
       wasm' = WasmInitializeStart(wasm, count)
  /\ hist' = [Note("wasmInitialize") EXCEPT !.changes = @ + 1]
  /\ UNCHANGED outsideWasm

\* init() settles for the initialize call that waited longest
WasmInitSettles ==
  /\ wasm.pending # << >>
  /\ \E initOk \in BOOLEAN, simOk \in BOOLEAN :
       /\ wasm' = WasmInitializeResume(wasm, initOk, simOk)
       /\ hist' = [Note("wasmInitSettles") EXCEPT
                     !.returned = initOk /\ simOk]
  /\ UNCHANGED outsideWasm

\* the particle count is changed; a free() on a Simulation that was freed
\* before may throw
WasmSetCount ==
  /\ hist.changes < MaxChanges
  /\ \E count \in WasmCounts \ {wasm.targetParticleCount},
        threw \in BOOLEAN :
       /\ threw => WasmStale(wasm)
       /\ wasm' = WasmSetParticleCount(wasm, count, threw)
  /\ hist' = [Note("wasmSetCount") EXCEPT !.changes = @ + 1]
  /\ UNCHANGED outsideWasm

\* a frame: update(deltaMS / 1000); tick() on a live Simulation returns one
\* position for each of its particles, on a freed one it may throw
WasmFrame ==
  /\ hist.frames < MaxFrames
  /\ LET n == IF wasm.wasmSimulation = 0 THEN 0
              ELSE wasm.sims[wasm.wasmSimulation].count
     IN \E positions \in [1..n -> WasmPositions], returned \in BOOLEAN :
          /\ ~returned => WasmTicked(wasm) = "freed"
          /\ wasm' = WasmUpdate(wasm, positions, returned)
  /\ hist' = [Note("wasmUpdate") EXCEPT !.ticked = WasmTicked(wasm),
                                        !.frames = @ + 1]
  /\ UNCHANGED outsideWasm

\* cleanup() is called; a free() on a Simulation that was freed before may
\* throw
WasmCleanupCall ==
  /\ hist.calls < MaxCalls
  /\ \E threw \in BOOLEAN :
       /\ threw => WasmStale(wasm)
       /\ wasm' = WasmCleanup(wasm, threw)
  /\ hist' = [Note("wasmCleanup") EXCEPT !.calls = @ + 1]
  /\ UNCHANGED outsideWasm

NextWasm ==
  \/ WasmInitializeCall
  \/ WasmInitSettles
  \/ WasmSetCount
  \/ WasmFrame
  \/ WasmCleanupCall

SpecWasm == Init /\ [][NextWasm]_vars

\* ------------------------- both particle systems, each with its own ticker
\* a WasmParticleSystemV2 whose initialize(1) has returned true
WasmReady ==
  WasmInitializeResume(WasmInitializeStart(WasmNew, 1), TRUE, TRUE)

InitAlpha ==
  /\ config \in { c \in Configs : c.lifetime = WindowMs }
  /\ ps = InitPool(PoolSize)
  /\ hist = NoHist
  /\ drv = NoDriver
  /\ wasm = WasmReady
  /\ canvas = CanvasNew(FALSE)
  /\ core = CoreNew(FALSE)

\* a frame of the pooled system that takes time and emits
PooledFrame ==
  /\ hist.ticks < MaxTicks
  /\ \E deltaMS \in Deltas \ {0}, rate \in Rates \ {0} :
       UpdateCallWith(deltaMS, rate, FrameDraws)
  /\ UNCHANGED elsewhere

NextAlpha == PooledFrame \/ WasmFrame

SpecAlpha == InitAlpha /\ [][NextAlpha]_vars

\* ------------------------------------------- one particle, counted down
\* calls of Particle.update made on the one particle
MaxSteps == 31
\* lifetimes and tick lengths in milliseconds, as update receives them
CountdownLifetimes == {3000, 1000, 250}
CountdownDeltas == {100, 30, 1000}

\* a system whose one sprite has just been emitted
InitCountdown ==
  /\ config \in [lifetime : CountdownLifetimes, gravity : Gravities, y : {0}]
  /\ \E d \in FrameDraws : ps = Emit(InitPool(1), config, d)
  /\ \E dt \in CountdownDeltas : hist = [NoHist EXCEPT !.dt = dt]
  /\ drv = NoDriver
  /\ wasm = WasmNew
  /\ canvas = CanvasNew(FALSE)
  /\ core = CoreNew(FALSE)

\* particle.update(dt) on the particle, its return value recorded
Advance ==
  /\ hist.calls < MaxSteps
  /\ LET p == ps.particles[1]
         r == ParticleUpdate(p, ps.sprites[p.sprite], hist.dt)
     IN /\ ps' = [ps EXCEPT !.particles[1] = r.p,
                            !.sprites[p.sprite] = r.s]
        /\ hist' = [hist EXCEPT !.prevOp = hist.op, !.op = "advance",
                                !.calls = @ + 1, !.returned = r.alive,
                                !.flag0 = p.active, !.age0 = p.age]
  /\ UNCHANGED config
  /\ UNCHANGED elsewhere

\* the particle after n calls of update(dt)
Advanced(p, s, dt, n) ==
  LET after[i \in 0..n] ==
        IF i = 0 THEN [p |-> p, s |-> s]
        ELSE LET prev == after[i - 1]
                 r == ParticleUpdate(prev.p, prev.s, dt)
             IN [p |-> r.p, s |-> r.s]
  IN after[n].p

NextCountdown == Advance

SpecCountdown == InitCountdown /\ [][NextCountdown]_vars

\* --------------------------------------- CanvasRenderer and its callers
\* CanvasPerformanceTest after renderer.initialize() returned true, the
\* WASM simulation made or not
InitCanvas ==
  /\ config \in { c \in Configs : c.lifetime = WindowMs }
  /\ ps = InitPool(PoolSize)
  /\ hist = NoHist
  /\ drv = NoDriver
  /\ wasm = WasmNew
  /\ \E sim \in BOOLEAN : canvas = CanvasNew(sim)
  /\ core = CoreNew(FALSE)

\* the renderer at a call that reads Date.now() gap milliseconds after the
\* last call that read it
At(gap) == [canvas EXCEPT !.now = @ + gap]

\* an Add button is clicked
AddObjectsCall ==
  /\ hist.calls < MaxClicks
  /\ \E gap \in Gaps, count \in AddCounts, created \in BOOLEAN :
       /\ Len(canvas.stage) + count <= MaxObjects
       /\ \E places \in [1..count -> Places] :
            canvas' = AddObjects(At(gap), count, places, created)
  /\ hist' = [Note("addObjects") EXCEPT !.calls = @ + 1]
  /\ UNCHANGED outsideCanvas

\* Clear All is clicked
ClearObjectsCall ==
  /\ hist.calls < MaxClicks
  /\ canvas' = ClearObjects(canvas)
  /\ hist' = [Note("clearObjects") EXCEPT !.calls = @ + 1]
  /\ UNCHANGED outsideCanvas

\* the animation button is clicked
ToggleAnimationCall ==
  /\ hist.calls < MaxClicks
  /\ LET r == ToggleAnimation(canvas)
     IN /\ canvas' = r.c
        /\ hist' = [Note("toggleAnimation") EXCEPT
                      !.returned = r.returned,
                      !.flag0 = canvas.isAnimating,
                      !.calls = @ + 1]
  /\ UNCHANGED outsideCanvas

\* the ticker calls render
RenderTick ==
  /\ canvas.renders > 0
  /\ hist.ticks < MaxTicks
  /\ \E gap \in Gaps \ {0}, deltaTime \in CanvasDeltas :
       LET c == At(gap)
           r == Render(c, deltaTime)
       IN /\ canvas' = r
          /\ hist' = [Note("render") EXCEPT
                        !.flag0 = canvas.isAnimating,
                        !.same = (r.stage = c.stage
                                  /\ r.simSteps = c.simSteps),
                        !.ticks = @ + 1]
  /\ UNCHANGED outsideCanvas

NextCanvas ==
  \/ AddObjectsCall
  \/ ClearObjectsCall
  \/ ToggleAnimationCall
  \/ RenderTick

SpecCanvas == InitCanvas /\ [][NextCanvas]_vars

\* ------------------------------------ CanvasRendererCore and its callers
\* the harness has constructed the core, with a WASM simulation or without
InitCore ==
  /\ config \in { c \in Configs : c.lifetime = WindowMs }
  /\ ps = InitPool(PoolSize)
  /\ hist = NoHist
  /\ drv = NoDriver
  /\ wasm = WasmNew
  /\ canvas = CanvasNew(FALSE)
  /\ \E sim \in BOOLEAN : core = CoreNew(sim)

\* createObjects(count) is called
CoreCreateObjectsCall ==
  /\ ~core.destroyed
  /\ hist.calls < MaxClicks
  /\ \E count \in CoreCounts, thrown \in SUBSET (0..1) :
       /\ thrown \subseteq 0..(count - 1)
       /\ thrown # {} => core.sim
       /\ core' = CoreCreateObjects(core, count, thrown)
  /\ hist' = [Note("createObjects") EXCEPT !.calls = @ + 1]
  /\ UNCHANGED outsideCore

\* clearObjects() is called
CoreClearObjectsCall ==
  /\ ~core.destroyed
  /\ hist.calls < MaxClicks
  /\ core' = CoreClearObjects(core)
  /\ hist' = [Note("coreClearObjects") EXCEPT !.calls = @ + 1]
  /\ UNCHANGED outsideCore

\* setTestMode(mode) is called
CoreSetTestModeCall ==
  /\ ~core.destroyed
  /\ hist.calls < MaxClicks
  /\ \E mode \in TestModes : core' = CoreSetTestMode(core, mode)
  /\ hist' = [Note("setTestMode") EXCEPT !.calls = @ + 1]
  /\ UNCHANGED outsideCore

\* a graphic on the stage receives pointerdown
ObjectPointerDown ==
  /\ ~core.destroyed
  /\ hist.calls < MaxClicks
  /\ \E id \in DOMAIN core.maps[core.objects] :
       core' = OnObjectPointerDown(core, id)
  /\ hist' = [Note("objectPointerDown") EXCEPT !.calls = @ + 1]
  /\ UNCHANGED outsideCore

\* startRenderLoop() is called
CoreStartRenderLoopCall ==
  /\ ~core.destroyed
  /\ core.tickerListeners = << >>
  /\ core' = CoreStartRenderLoop(core)
  /\ hist' = Note("startRenderLoop")
  /\ UNCHANGED outsideCore

\* destroy() is called
CoreDestroyCall ==
  /\ ~core.destroyed
  /\ \E stopsTicker \in BOOLEAN : core' = CoreDestroy(core, stopsTicker)
  /\ hist' = Note("destroy")
  /\ UNCHANGED outsideCore

\* the ticker runs its callbacks: render, once for each registration
CoreFrame ==
  /\ core.tickerListeners # << >>
  /\ hist.ticks < MaxTicks
  /\ core' = [CoreRender(core) EXCEPT !.lateRender = @ \/ core.destroyed]
  /\ hist' = [Note("coreRender") EXCEPT !.ticks = @ + 1]
  /\ UNCHANGED outsideCore

\* the window is resized: its resize listeners run onResize
WindowResize ==
  /\ core.windowListeners # << >>
  /\ hist.frames < MaxFrames
  /\ core' = [core EXCEPT !.lateResize = @ \/ core.destroyed]
  /\ hist' = [Note("resize") EXCEPT !.frames = @ + 1]
  /\ UNCHANGED outsideCore

NextCore ==
  \/ CoreCreateObjectsCall
  \/ CoreClearObjectsCall
  \/ CoreSetTestModeCall
  \/ ObjectPointerDown
  \/ CoreStartRenderLoopCall
  \/ CoreDestroyCall
  \/ CoreFrame
  \/ WindowResize

SpecCore == InitCore /\ [][NextCore]_vars



\* =================================================================== claims
Particles == Range(ps.particles)
ActiveCount == GetActiveParticleCount(ps)
Abs(n) == IF n < 0 THEN -n ELSE n

\* C1 (Spec).  Pool conservation: the idle sprites of particlePool and the
\* active sprites of activeParticles together are all the sprites ever
\* created, and no sprite is in both.
C1_PoolConservation ==
  /\ Len(ps.particlePool) + Len(ps.activeParticles) = Allocated(ps)
  /\ Range(ps.particlePool) \cap Range(ps.activeParticles) = {}

\* the pool has run dry and grown, sprites have been retired, and both
\* collections hold sprites
C1_Witness ==
  /\ Allocated(ps) > PoolSize
  /\ hist.dead # << >>
  /\ ps.activeParticles # << >>
  /\ ps.particlePool # << >>

\* C2 (Spec).  Emission accumulator: an update with deltaMS >= 0 and
\* rate >= 0 adds rate * deltaMS / 5000 to emissionTimer, emits the integer
\* part of the sum and keeps the fractional part, a value in [0, 1).
C2_EmissionAccumulator ==
  hist.op = "update" =>
    LET acc == hist.timer0 + hist.rate * hist.deltaMS IN
    /\ hist.added = acc \div TimerUnit
    /\ ps.emissionTimer = acc % TimerUnit
    /\ ps.emissionTimer >= 0
    /\ ps.emissionTimer < TimerUnit

\* an update that emitted one particle more than its own tick's share,
\* thanks to the fraction carried in, and carries a fraction out
C2_Witness ==
  /\ hist.op = "update"
  /\ hist.timer0 > 0
  /\ hist.added > (hist.rate * hist.deltaMS) \div TimerUnit
  /\ ps.emissionTimer > 0

\* C3 (SpecWindow).  Emission convergence: with target T and a tick length
\* dividing the window, the particles emitted over one window of ticks from
\* a zero accumulator number T, give or take one.
C3_EmissionConvergence ==
  hist.ticks * hist.dt = WindowMs => Abs(hist.total - hist.T) <= 1

\* five ticks of one second at target 3: 0.6 particles a tick, 3 in all
C3_Witness ==
  /\ hist.ticks * hist.dt = WindowMs
  /\ hist.T = 3
  /\ hist.dt = 1000
  /\ hist.total = 3

\* C4 (SpecWindow), as claimed.  Population bound: the active count after an
\* update never exceeds T, and after one full window of ticks it is T, give
\* or take one.
C4_PopulationReachesTarget ==
  hist.op = "update" =>
    /\ ActiveCount <= hist.T
    /\ hist.ticks * hist.dt = WindowMs => Abs(ActiveCount - hist.T) <= 1

\* C4 (SpecWindow), amended.  The active count after an update never exceeds
\* T, and after one full window of ticks it is T less the floor(T * dt / W)
\* particles of the first tick, which reach age = lifetime on the last tick
\* of the window and are retired by it.
C4_PopulationBound ==
  hist.op = "update" =>
    /\ ActiveCount <= hist.T
    /\ hist.ticks * hist.dt = WindowMs =>
         ActiveCount = hist.T - (hist.T * hist.dt) \div WindowMs

\* target 4 in two ticks of 2.5 s: two particles left at the window's end
C4_Witness ==
  /\ hist.op = "update"
  /\ hist.ticks * hist.dt = WindowMs
  /\ hist.T = 4
  /\ hist.dt = 2500
  /\ ActiveCount = 2

\* C5 (Spec).  Retirement within the tick: a sprite whose particle returned
\* false during an update is, when the update returns, out of
\* activeParticles and of the particles map and in the pool exactly once;
\* so every particle a later update advances is an active one.
C5_RetiredWithinTick ==
  hist.op = "update" =>
    /\ \A s \in Range(hist.dead) :
         /\ s \notin Range(ps.activeParticles)
         /\ \A p \in Particles : p.sprite # s
         /\ Count(ps.particlePool, s) = 1
         /\ ~ps.sprites[s].visible
    /\ \A p \in Particles : p.active

\* an update retired two sprites while other particles live on
C5_Witness ==
  /\ hist.op = "update"
  /\ Len(hist.dead) >= 2
  /\ ps.particles # << >>

\* C6 (Spec).  After every update each particle still held is active with
\* age < lifetime, and every sprite of activeParticles belongs to such a
\* particle.
C6_ActiveAreLive ==
  hist.op = "update" =>
    /\ \A p \in Particles : p.active /\ p.age < p.lifetime
    /\ \A s \in Range(ps.activeParticles) :
         \E p \in Particles : p.sprite = s /\ p.active

\* an update that retired a particle and advanced a survivor
C6_Witness ==
  /\ hist.op = "update"
  /\ hist.dead # << >>
  /\ \E p \in Particles : p.age > 0

C8_AcquireOnExhaustion ==
  hist.op = "update" =>
    /\ hist.added = hist.units
    /\ Allocated(ps) - hist.alloc0 = Max(0, hist.units - hist.pool0)
    /\ ActiveCount = hist.active0 + hist.units - Len(hist.dead)

\* an update whose emits outnumbered the idle sprites
C8_Witness ==
  /\ hist.op = "update"
  /\ hist.units > hist.pool0
  /\ Allocated(ps) > hist.alloc0
  /\ ActiveCount > hist.active0

C10_DegenerateNoOp ==
  (hist.op = "update" /\ (IsNaN(hist.deltaMS) \/ hist.deltaMS < 0))
     => hist.same

\* C11 (SpecDriver).  Ramped growth: an update call spawns at most
\* floor(carried fraction + (target / 5) * dt in seconds) particles, where
\* target is the particle count of the component at the time of the call,
\* so the active count after the first update that follows a change of the
\* target has grown by no more than that and has not jumped to the target.
C11_RampedGrowth ==
  hist.op = "update" =>
    /\ hist.added <=
         (hist.timer0 + drv.particleCount * hist.deltaMS) \div TimerUnit
    /\ ActiveCount <= hist.active0 +
         (hist.timer0 + drv.particleCount * hist.deltaMS) \div TimerUnit
    /\ ActiveCount < drv.particleCount

\* the first update after the target was raised spawned particles
C11_Witness ==
  /\ hist.op = "update"
  /\ hist.prevOp = "setTarget"
  /\ drv.particleCount > InitialCount
  /\ hist.added >= 1

\* C12 (SpecDriver).  Setting the target is not retroactive:
\* updateParticleCount leaves the particle system (active set, particle
\* states, idle pool, emissionTimer) as it was, and every update call is
\* given the particle count the component holds at that call.
C12_SetTargetNotRetroactive ==
  /\ hist.op = "setTarget" => hist.same
  /\ hist.op = "update" => hist.rate = drv.particleCount

\* the target was changed while particles were active and a fraction was
\* carried in the timer
C12_Witness ==
  /\ hist.op = "setTarget"
  /\ drv.particleCount # InitialCount
  /\ ActiveCount > 0
  /\ ps.emissionTimer > 0

C15_FailureHalts ==
  hist.op = "update" => ~drv.errors

\* C16 (SpecWasm), as claimed.  No use before init or after free: update
\* calls tick() only on a Simulation that has not been freed.
C16_NoUseAfterFree ==
  hist.op = "wasmUpdate" => hist.ticked # "freed"

AlphaInRange(a) == 0 <= a.num /\ a.num <= a.den

\* C17 (SpecAlpha).  Alpha range: after every update the alpha of every
\* active sprite of the pooled system and of every particle of the WASM
\* system is within [0, 1].
C17_AlphaRange ==
  /\ \A id \in Range(ps.activeParticles) : AlphaInRange(ps.sprites[id].alpha)
  /\ \A i \in 1..Len(wasm.particleList) : AlphaInRange(wasm.particleList[i])

\* a pooled particle is fading and a WASM particle is beyond the origin
C17_Witness ==
  /\ \E id \in Range(ps.activeParticles) :
       /\ ps.sprites[id].alpha.num > 0
       /\ ps.sprites[id].alpha.num < ps.sprites[id].alpha.den
  /\ \E i \in 1..Len(wasm.particleList) :
       wasm.particleList[i].num < wasm.particleList[i].den
  /\ hist.frames > 0

\* C18 (SpecWasm), as claimed.  WASM resources are released exactly once:
\* free() is never called twice on a Simulation, and when cleanup() returns
\* it has been called once on every Simulation created so far.
C18_FreedExactlyOnce ==
  /\ \A i \in 1..Len(wasm.sims) : wasm.sims[i].frees <= 1
  /\ hist.op = "wasmCleanup" =>
       \A i \in 1..Len(wasm.sims) : wasm.sims[i].frees = 1

\* C19 (SpecCanvas), as claimed.  Object tracking: getObjectCount() equals
\* the number of shapes on the stage and the number of entries of the
\* objects map.
C19_ObjectTracking ==
  /\ GetObjectCount(canvas) = Len(canvas.stage)
  /\ GetObjectCount(canvas) = Cardinality(DOMAIN canvas.objects)

\* C20 (SpecCanvas).  Animation toggle: toggleAnimation flips isAnimating
\* and returns the new value, and a render tick with the flag false leaves
\* every shape's position, rotation and scale as they were and does not
\* advance the WASM simulation.
C20_AnimationToggle ==
  /\ hist.op = "toggleAnimation" =>
       /\ canvas.isAnimating = ~hist.flag0
       /\ hist.returned = canvas.isAnimating
  /\ (hist.op = "render" /\ ~hist.flag0) => hist.same

\* a render tick with the animation stopped, after ticks that animated the
\* shapes and advanced the simulation
C20_Witness ==
  /\ hist.op = "render"
  /\ ~hist.flag0
  /\ ~canvas.isAnimating
  /\ Len(canvas.stage) > 0
  /\ canvas.simSteps > 0

\* C21 (SpecSetter), as claimed.  Configuration errors are rejected, not
\* clamped: after a request for a negative particle count the component
\* holds the count it held before, and emissionTimer is never negative.
C21_InvalidTargetRejected ==
  /\ (hist.op = "setTarget" /\ hist.count0 + hist.delta < 0) =>
       drv.particleCount = hist.count0
  /\ ps.emissionTimer >= 0

\* C22: every sprite is in exactly one of the pool (idle) and the active
\* list, it is visible exactly when it is active, a sprite that update
\* creates was not there before and ends idle or active like the others,
\* and between two consecutive states a sprite goes from idle to active
\* only in an update that emitted and from active to idle only by being
\* among the sprites that update retired.
C22_SpriteStateMachine ==
  /\ [](\A id \in 1..Allocated(ps) :
          /\ Count(ps.particlePool, id) + Count(ps.activeParticles, id) = 1
          /\ ps.sprites[id].visible <=> id \in Range(ps.activeParticles))
  /\ [][\A id \in 1..Allocated(ps) :
          /\ (id \in Range(ps.particlePool)
                 /\ id \in Range(ps'.activeParticles)) =>
                (hist'.op = "update" /\ hist'.added > 0)
          /\ (id \in Range(ps.activeParticles)
                 /\ id \in Range(ps'.particlePool)) =>
                (hist'.op = "update" /\ id \in Range(hist'.dead))]_vars

\* an update retired a sprite while another one stayed active, and the
\* pool had to grow on the way
C22_Witness ==
  /\ hist.op = "update"
  /\ Len(hist.dead) > 0
  /\ Len(ps.activeParticles) > 0
  /\ Allocated(ps) > PoolSize
  /\ \E id \in Range(hist.dead) : ~ps.sprites[id].visible

\* C23: while the particle is active each call of update adds dt to its
\* age, returns true when the new age is below the lifetime and false when
\* it has reached it, so the first false is call number ceil(L / dt); a
\* particle that has returned false is inactive and every later call
\* returns false; with L = 3000 ms and dt = 100 ms calls 1 to 29 return
\* true and call 30 returns false.
C23_LifetimeCountdown ==
  hist.op = "advance" =>
    LET p == ps.particles[1] IN
    /\ hist.flag0 => /\ p.age = hist.age0 + hist.dt
                     /\ p.age > hist.age0
                     /\ hist.returned <=> p.age < p.lifetime
    /\ ~hist.flag0 => ~hist.returned
    /\ p.active <=> hist.returned
    /\ hist.returned <=> hist.calls * hist.dt < p.lifetime
    /\ (p.lifetime = 3000 /\ hist.dt = 100) =>
          (hist.returned <=> hist.calls <= 29)

\* the thirtieth call with L = 3000 and dt = 100 has returned false
C23_Witness ==
  /\ hist.op = "advance"
  /\ config.lifetime = 3000 /\ hist.dt = 100
  /\ hist.calls = 30
  /\ ~hist.returned
  /\ ~ps.particles[1].active
  /\ ps.particles[1].age = 3000

\* C24: the velocity an active particle has after a total elapsed time is
\* the same however that time is divided into ticks: whenever the elapsed
\* time of the calls made so far is also a whole number of ticks of another
\* length (up to ten of them), advancing the freshly emitted particle by
\* those ticks gives the velocity the particle has now.
C24_TickDivisionIndependent ==
  (hist.op = "advance" /\ hist.returned) =>
    \A dt \in CountdownDeltas, d \in FrameDraws :
      LET T == hist.calls * hist.dt
          fresh == Emit(InitPool(1), config, d)
          q == Advanced(fresh.particles[1], fresh.sprites[1], dt, T \div dt)
      IN (T % dt = 0 /\ T \div dt <= 10 /\ q.active) =>
            q.vy = ps.particles[1].vy

\* C30: after every update (and the emits it makes) activeParticles holds
\* no sprite twice and holds exactly the sprites that are keys of the
\* particles map, so getActiveParticleCount() is the size of the map; the
\* update that follows advances every one of these particles, together
\* with the ones it emits itself.
C30_BookkeepingInSync ==
  /\ \A id \in 1..Allocated(ps) : Count(ps.activeParticles, id) <= 1
  /\ Range(ps.activeParticles) = { q.sprite : q \in Range(ps.particles) }
  /\ GetActiveParticleCount(ps) = Len(ps.particles)
  /\ GetActiveParticleCount(ps) =
       Cardinality({ q.sprite : q \in Range(ps.particles) })
  /\ hist.op = "update" => hist.advanced = hist.active0 + hist.added

\* a second or later update has emitted and retired sprites and left at
\* least two active
C30_Witness ==
  /\ hist.op = "update"
  /\ hist.ticks >= 2
  /\ hist.active0 > 0
  /\ hist.added > 0
  /\ Len(hist.dead) > 0
  /\ GetActiveParticleCount(ps) >= 2

\* C26: when the initialize call made by setParticleCount(n) has returned
\* true, particleList holds as many render particles as the Simulation
\* the call created has particles, namely n.
C26_RenderPopulationMatches ==
  (/\ hist.op = "wasmInitSettles"
   /\ hist.prevOp = "wasmSetCount"
   /\ hist.returned
   /\ wasm.pending = << >>) =>
     /\ Len(wasm.particleList) = wasm.sims[wasm.wasmSimulation].count
     /\ Len(wasm.particleList) = wasm.targetParticleCount

\* C29: after any sequence of addObjects, toggleAnimation (and clearObjects
\* and frames) the render callback is on the ticker at most once.
C29_SingleRenderRegistration == canvas.renders <= 1

\* animation has been switched on after objects were added twice, and the
\* callback is registered once
C29_Witness ==
  /\ hist.op = "toggleAnimation"
  /\ hist.returned
  /\ hist.calls >= 3
  /\ Len(canvas.stage) >= 2
  /\ canvas.renders = 1

\* C25: once destroy() has returned, the render callback is not on the
\* ticker and the resize listener is not on the window, and neither
\* render nor onResize of the destroyed object runs again.
C25_DestroyUnregisters ==
  core.destroyed =>
    /\ core.tickerListeners = << >>
    /\ core.windowListeners = << >>
    /\ ~core.lateRender
    /\ ~core.lateResize

\* C27: with a WASM simulation attached and no add_object call having
\* thrown, after any sequence of createObjects and clearObjects the ids the
\* simulation holds are the keys of the objects map, each added once.
C27_StoresAgree ==
  (core.sim /\ ~core.addFailed) =>
    /\ Range(core.simIds) = DOMAIN core.maps[core.objects]
    /\ \A id \in Range(core.simIds) : Count(core.simIds, id) = 1

\* C28: every object in the tracked objects map has selected = true
\* exactly when its id is in the InteractionHandler's selected set.
C28_SelectionConsistent ==
  \A id \in DOMAIN core.maps[core.objects] :
    core.maps[core.objects][id].selected <=> id \in core.selectedObjects

\* objects were created anew after one had been selected, and one of the
\* two new objects has then been selected
C28_Witness ==
  /\ hist.op = "objectPointerDown"
  /\ hist.calls >= 3
  /\ Len(core.maps) >= 3
  /\ core.objects = core.handlerObjects
  /\ Cardinality(DOMAIN core.maps[core.objects]) = 2
  /\ Cardinality(core.selectedObjects) = 1
  /\ \E id \in core.selectedObjects : core.maps[core.objects][id].selected
====
